---- MODULE Spec2Model ----
(***************************************************************************)
(* readeck-cli: the API wrapper (pyreadeck.py), the settings loader        *)
(* (settings.py) and the terminal UI handlers (tui.py).                    *)
(*                                                                         *)
(* Three specifications share the module:                                  *)
(*   SpecClient    one call of a PyReadeck operation on drawn inputs       *)
(*   SpecSettings  runs of Settings.load against the persisted env file    *)
(*   SpecUI        the event handlers of the Bookmarks and Article widgets *)
(***************************************************************************)
EXTENDS Integers, Sequences, FiniteSets, TLC

VARIABLES
    input,        \* SpecClient: the operation called, its arguments, the HTTP outcome
    call,         \* SpecClient: the requests the call issued and how it ended
    env,          \* SpecSettings: content of the .env file
    load,         \* SpecSettings: the last run of Settings.load (effects, result)
    mounted,      \* SpecUI: Bookmarks.on_mount has run
    escaped,      \* SpecUI: the exception that left a handler uncaught, or "none"
    _bookmarks,   \* SpecUI: Bookmarks._bookmarks
    items,        \* SpecUI: the ListItem labels of the list view
    document,     \* SpecUI: markdown shown by Article.document
    loading,      \* SpecUI: Article.loading
    focus,        \* SpecUI: the focused widget
    requests,     \* SpecUI: every HTTP request issued so far, in order
    last          \* SpecUI: the event handled last and the outcome it met

clientVars   == <<input, call>>
settingsVars == <<env, load>>
uiVars       == <<mounted, escaped, _bookmarks, items, document, loading, focus,
                  requests, last>>
vars         == <<input, call, env, load, mounted, escaped, _bookmarks, items,
                  document, loading, focus, requests, last>>

---------------------------------------------------------------------------
(* Bounds of the model *)

\* how many fields of a BookmarkFilter are set at once
MaxSetFields == 2
\* how many UI events (mount, selections, closes) a run handles
MaxEvents == 4

---------------------------------------------------------------------------
(* Python values *)

None        == [kind |-> "None"]
PyBool(b)   == [kind |-> "bool", bool |-> b]
PyInt(n)    == [kind |-> "int", int |-> n]
PyStr(s)    == [kind |-> "str", str |-> s]
PyBytes(b)  == [kind |-> "bytes", bytes |-> b]
PyList(l)   == [kind |-> "list", list |-> l]
PyDict(d)   == [kind |-> "dict", dict |-> d]
PyEnum(c, m) == [kind |-> "enum", cls |-> c, member |-> m]

\* Python truth value testing: None, False, 0 and empty containers are false;
\* an instance of a class defining neither __bool__ nor __len__ is true.
Truthy(v) ==
    CASE v.kind = "None"  -> FALSE
      [] v.kind = "bool"  -> v.bool
      [] v.kind = "int"   -> v.int # 0
      [] v.kind = "str"   -> v.str # ""
      [] v.kind = "bytes" -> v.bytes # <<>>
      [] v.kind = "list"  -> v.list # <<>>
      [] v.kind = "dict"  -> DOMAIN v.dict # {}
      [] OTHER            -> TRUE

---------------------------------------------------------------------------
(* pyreadeck.py: enumerations and BookmarkFilter *)

BookmarkType ==
    [ARTICLE |-> "article", PHOTO |-> "photo", VIDEO |-> "video"]

SortEnum ==
    [CREATED |-> "created", CREATED_DESC |-> "-created",
     DOMAIN_ |-> "domain", DOMAIN_DESC |-> "-domain",
     DURATION |-> "duration", DURATION_DESC |-> "-duration",
     PUBLISHED |-> "published", PUBLISHED_DESC |-> "-published",
     SITE |-> "site", SITE_DESC |-> "-site",
     TITLE |-> "title", TITLE_DESC |-> "-title"]

\* the .value of an enum member
EnumValue(e) ==
    IF e.cls = "SortEnum" THEN SortEnum[e.member] ELSE BookmarkType[e.member]

FilterFields ==
    {"limit", "offset", "sort", "search", "title", "author", "site", "type",
     "labels", "is_marked", "is_archived", "range_start", "range_end", "id",
     "collection"}

\* the values a field can be set to (its declared type), None apart
FieldValues(f) ==
    CASE f \in {"limit", "offset"} -> {PyInt(0), PyInt(10)}
      [] f = "sort" ->
            {PyList(<<>>),
             PyList(<<PyEnum("SortEnum", "CREATED_DESC")>>),
             PyList(<<PyEnum("SortEnum", "TITLE"), PyEnum("SortEnum", "SITE_DESC")>>)}
      [] f = "type" ->
            {PyEnum("BookmarkType", m) : m \in DOMAIN BookmarkType}
      [] f \in {"is_marked", "is_archived"} -> {PyBool(FALSE), PyBool(TRUE)}
      [] OTHER -> {PyStr(""), PyStr("rust")}

AllFieldValues == UNION {FieldValues(f) : f \in FilterFields}

BookmarkFilter(fields) == [kind |-> "BookmarkFilter", fields |-> fields]

\* the BookmarkFilter instances with at most MaxSetFields fields set
Filters ==
    UNION {
        {BookmarkFilter([f \in FilterFields |-> IF f \in S THEN g[f] ELSE None]) :
            g \in {h \in [S -> AllFieldValues] : \A f \in S : h[f] \in FieldValues(f)}} :
        S \in {T \in SUBSET FilterFields : Cardinality(T) <= MaxSetFields}}

\* cattrs unstructure of one value: an enum member becomes its value, a list
\* is unstructured element by element, primitives pass through
UnstructureValue(v) ==
    CASE v.kind = "enum" -> PyStr(EnumValue(v))
      [] v.kind = "list" ->
            PyList([i \in DOMAIN v.list |->
                        IF v.list[i].kind = "enum"
                        THEN PyStr(EnumValue(v.list[i])) ELSE v.list[i]])
      [] OTHER -> v

\* _converter.unstructure(filter_options): one key per attribute
Unstructure(flt) ==
    [f \in FilterFields |-> UnstructureValue(flt.fields[f])]

\* the comprehension as it would be with the test "if v" (truthiness)
RemoveFalsy(d) ==
    [k \in {f \in DOMAIN d : Truthy(d[f])} |-> d[k]]

\* {k: v for k, v in filter_options.items() if v is not None}
RemoveNone(d) ==
    [k \in {f \in DOMAIN d : d[f] # None} |-> d[k]]

---------------------------------------------------------------------------
(* The HTTP boundary: what the service (or the transport) answers *)

Statuses == {200, 202, 204, 302, 401, 404, 500}

\* httpx transport exceptions raised while a request is in flight
TransportErrors == {"ConnectError", "ConnectTimeout", "ReadTimeout"}

Responses(bodies) == [kind : {"response"}, status : Statuses, body : bodies]

Failures == [kind : {"error"}, exc : TransportErrors]

\* base URLs a user may have configured, split as urllib.parse.urlsplit does
UrlSplit(u) ==
    CASE u = "http://readeck"      -> [scheme |-> "http", netloc |-> "readeck", path |-> ""]
      [] u = "http://readeck/sub/" -> [scheme |-> "http", netloc |-> "readeck", path |-> "/sub/"]
      [] OTHER                     -> [scheme |-> "", netloc |-> "", path |-> u]

\* urljoin(base, path) for a path that starts with "/": the base keeps its
\* scheme and host, its own path is replaced
urljoin(base, path) ==
    LET b == UrlSplit(base)
    IN  IF b.scheme = "" THEN path ELSE b.scheme \o "://" \o b.netloc \o path

\* the bookmarks the service holds, as the JSON objects it sends
BookmarkJson1 ==
    [id |-> "b1", title |-> "First", type |-> "article"]

BookmarkJson2 ==
    [id |-> "b2", title |-> "Second", type |-> "video", published |-> TRUE]

BookmarkJsons == {BookmarkJson1, BookmarkJson2}

BookmarkLists ==
    {<<>>, <<BookmarkJson1>>, <<BookmarkJson2>>,
     <<BookmarkJson1, BookmarkJson2>>, <<BookmarkJson2, BookmarkJson1>>}

BookmarkIds == {j.id : j \in BookmarkJsons}

\* exported article payloads, as bytes on the wire
Contents == {<<>>, <<35, 65>>, <<35, 66>>}

\* Response.text: the payload decoded
Decode(bytes) ==
    CASE bytes = <<>>       -> ""
      [] bytes = <<35, 65>> -> "#A"
      [] bytes = <<35, 66>> -> "#B"

Tokens == {"tok1", "tok2"}

---------------------------------------------------------------------------
(* pyreadeck.py: Bookmark and the PyReadeck operations.  An operation is an  *)
(* operator of its arguments and of the outcome its request meets; it gives  *)
(* the requests issued and the result (a return value or a raised error).    *)

\* _converter.structure(json, Bookmark)
Bookmark(j) ==
    [id |-> j.id,
     title |-> j.title,
     type |-> PyEnum("BookmarkType",
                     CHOOSE m \in DOMAIN BookmarkType : BookmarkType[m] = j.type),
     published |-> IF "published" \in DOMAIN j THEN PyBool(j.published) ELSE None]

Request(method, path, params, json) ==
    [method |-> method, path |-> path, params |-> params, json |-> json]

Return(v) == [kind |-> "return", value |-> v]

Raise(exc) == [kind |-> "raise", exc |-> exc]

HTTPStatusError(r) == [kind |-> "raise", exc |-> "HTTPStatusError", status |-> r.status]

\* a status check that lets everything below 400 through
raise_for_status_from_400(r) == r.status >= 400

\* Response.raise_for_status raises exactly when the status is not 2xx
raise_for_status(r) == r.status \notin 200..299

\* one request handed to httpx: it is sent once and either answered or failed
Send(req, outcome) ==
    [requests |-> <<req>>,
     result   |-> IF outcome.kind = "error" THEN Raise(outcome.exc)
                  ELSE IF raise_for_status(outcome) THEN HTTPStatusError(outcome)
                  ELSE Return(outcome)]

\* json=data: the dict serialised key by key, a None value as JSON null
JsonNull == [kind |-> "null"]

JsonBody(data) ==
    [k \in DOMAIN data |-> IF data[k] = None THEN JsonNull ELSE data[k]]

authenticate(base_url, application, username, password, outcome) ==
    LET url == urljoin(base_url, "/api/auth")
        authdata == [application |-> application, username |-> username,
                     password |-> password]
        r == Send(Request("POST", url, None, authdata), outcome)
    IN  IF UrlSplit(base_url).scheme = ""
        THEN [requests |-> <<>>, result |-> Raise("UnsupportedProtocol")]
        ELSE IF r.result.kind = "raise" THEN r
        ELSE [requests |-> r.requests, result |-> Return(r.result.value.body.token)]

\* _get_response as it would be if a failed request were sent a second time
_get_response_retry(path, params, outcome) ==
    LET r == Send(Request("GET", path, params, None), outcome)
    IN  IF r.result.kind = "raise"
        THEN [requests |-> r.requests \o r.requests, result |-> r.result]
        ELSE r

_get_response(path, params, outcome) ==
    Send(Request("GET", path, params, None), outcome)

bookmarks(filter_options, outcome) ==
    LET params == IF Truthy(filter_options)
                  THEN PyDict(RemoveNone(Unstructure(filter_options)))
                  ELSE filter_options
        r == _get_response("bookmarks", params, outcome)
    IN  IF r.result.kind = "raise" THEN r
        ELSE [requests |-> r.requests,
              result   |-> Return([i \in DOMAIN r.result.value.body |->
                                      Bookmark(r.result.value.body[i])])]

bookmark(bookmark_id, outcome) ==
    LET r == _get_response("/bookmark/" \o bookmark_id, None, outcome)
    IN  IF r.result.kind = "raise" THEN r
        ELSE [requests |-> r.requests, result |-> Return(Bookmark(r.result.value.body))]

create_bookmark(url, labels, title, outcome) ==
    LET data == [labels |-> labels, title |-> title, url |-> PyStr(url)]
        r == Send(Request("POST", "/bookmarks", None, JsonBody(data)), outcome)
    IN  IF r.result.kind = "raise" THEN r
        ELSE [requests |-> r.requests, result |-> Return(r.result.value.body)]

delete_bookmark(bookmark_id, outcome) ==
    LET r == Send(Request("DELETE", "/bookmark/" \o bookmark_id, None, None), outcome)
    IN  IF r.result.kind = "raise" THEN r
        ELSE [requests |-> r.requests, result |-> Return(None)]

bookmark_export(bookmark_id, output_format, outcome) ==
    LET path == "bookmarks/" \o bookmark_id \o "/article." \o output_format
        r == _get_response(path, None, outcome)
    IN  IF r.result.kind = "raise" THEN r
        ELSE IF output_format = "md"
        THEN [requests |-> r.requests, result |-> Return(PyStr(Decode(r.result.value.body)))]
        ELSE [requests |-> r.requests, result |-> Return(PyBytes(r.result.value.body))]

---------------------------------------------------------------------------
(* SpecClient: one call of one operation.  The initial state draws the      *)
(* operation, its arguments and the outcome its request will meet.          *)

BaseUrls == {"", "http://readeck", "http://readeck/sub/"}

ExportFormats == {"md", "epub", "pdf"}

LabelArgs == {None, PyList(<<>>), PyList(<<PyStr("news")>>)}

TitleArgs == {None, PyStr(""), PyStr("A title")}

ClientInputs ==
    [op : {"authenticate"}, base_url : BaseUrls, username : {"ann"},
     password : {"pw", ""},
     outcome : Responses([token : Tokens]) \cup Failures]
    \cup
    [op : {"bookmarks"}, filter : Filters \cup {None},
     outcome : Responses(BookmarkLists) \cup Failures]
    \cup
    [op : {"bookmark"}, bookmark_id : BookmarkIds,
     outcome : Responses(BookmarkJsons) \cup Failures]
    \cup
    [op : {"create_bookmark"}, url : {"http://example.org/a"},
     labels : LabelArgs, title : TitleArgs,
     outcome : Responses({[status |-> 202]}) \cup Failures]
    \cup
    [op : {"delete_bookmark"}, bookmark_id : BookmarkIds,
     outcome : Responses({<<>>}) \cup Failures]
    \cup
    [op : {"bookmark_export"}, bookmark_id : BookmarkIds,
     output_format : ExportFormats,
     outcome : Responses(Contents) \cup Failures]

NoInput == [op |-> "none"]

NoCall == [requests |-> <<>>, result |-> [kind |-> "none"]]

Called == call.result.kind # "none"

\* an attribute no assignment has created yet
Unset == [kind |-> "unset"]

NoLoad == [effects |-> <<>>, requests |-> <<>>, result |-> [kind |-> "none"]]

InitSettingsIdle == env = << >> /\ load = NoLoad

InitUIIdle ==
    /\ mounted = FALSE
    /\ escaped = "none"
    /\ _bookmarks = Unset
    /\ items = <<>>
    /\ document = ""
    /\ loading = FALSE
    /\ focus = "Bookmarks"
    /\ requests = <<>>
    /\ last = [event |-> "none", n |-> 0]

InitClient ==
    /\ input \in ClientInputs
    /\ call = NoCall
    /\ InitSettingsIdle
    /\ InitUIIdle

CallAuthenticate ==
    /\ input.op = "authenticate" /\ ~Called
    /\ call' = authenticate(input.base_url, "pyreadeck", input.username,
                            input.password, input.outcome)
    /\ UNCHANGED <<input, settingsVars, uiVars>>

CallBookmarks ==
    /\ input.op = "bookmarks" /\ ~Called
    /\ call' = bookmarks(input.filter, input.outcome)
    /\ UNCHANGED <<input, settingsVars, uiVars>>

CallBookmark ==
    /\ input.op = "bookmark" /\ ~Called
    /\ call' = bookmark(input.bookmark_id, input.outcome)
    /\ UNCHANGED <<input, settingsVars, uiVars>>

CallCreateBookmark ==
    /\ input.op = "create_bookmark" /\ ~Called
    /\ call' = create_bookmark(input.url, input.labels, input.title, input.outcome)
    /\ UNCHANGED <<input, settingsVars, uiVars>>

CallDeleteBookmark ==
    /\ input.op = "delete_bookmark" /\ ~Called
    /\ call' = delete_bookmark(input.bookmark_id, input.outcome)
    /\ UNCHANGED <<input, settingsVars, uiVars>>

CallBookmarkExport ==
    /\ input.op = "bookmark_export" /\ ~Called
    /\ call' = bookmark_export(input.bookmark_id, input.output_format, input.outcome)
    /\ UNCHANGED <<input, settingsVars, uiVars>>

NextClient ==
    \/ CallAuthenticate
    \/ CallBookmarks
    \/ CallBookmark
    \/ CallCreateBookmark
    \/ CallDeleteBookmark
    \/ CallBookmarkExport

SpecClient == InitClient /\ [][NextClient]_vars

---------------------------------------------------------------------------
(* settings.py: Settings.load, run at process start against the .env file   *)

\* what the user may type at a prompt (Prompt.ask returns the line as typed,
\* the empty line included)
UrlInputs == BaseUrls

UserInputs == {"ann"}

PasswordInputs == {"pw", "bad"}

\* contents the .env file may have before a run: each key missing, empty or set
EnvFiles ==
    {e \in UNION {[S -> {"", "http://readeck", "tok0"}] :
                      S \in SUBSET {"base_url", "api_key"}} :
        /\ "base_url" \in DOMAIN e => e["base_url"] \in {"", "http://readeck"}
        /\ "api_key" \in DOMAIN e => e["api_key"] \in {"", "tok0"}}

\* dotenv_values(): the key/value pairs of the file
dotenv_values(envfile) == envfile

\* settings.get(key): the value, or None when the key is missing
Get(settings, key) ==
    IF key \in DOMAIN settings THEN PyStr(settings[key]) ELSE None

\* set_key(".env", key, value): the file with the key set to the value
set_key(envfile, key, value) ==
    [k \in DOMAIN envfile \cup {key} |-> IF k = key THEN value ELSE envfile[k]]

\* one thing load did that the outside can see: a prompt answered, a key
\* written to the file, a call of authenticate
Effect(op, arg, value) == [op |-> op, arg |-> arg, value |-> value]

\* lines 22-24: the base URL is prompted for and persisted when not set
resolve_base_url(st, url_input) ==
    IF ~Truthy(Get(st.settings, "base_url"))
    THEN [settings |-> set_key(st.settings, "base_url", url_input),
          envfile  |-> set_key(st.envfile, "base_url", url_input),
          effects  |-> st.effects \o <<Effect("Prompt.ask", "Readeck URL: ", url_input),
                                       Effect("set_key", "base_url", url_input)>>,
          requests |-> st.requests,
          raised   |-> st.raised]
    ELSE st

\* lines 25-34 as they would be if the key were written without waiting for
\* authenticate to succeed
resolve_api_key_persist_first(st, username, password, outcome) ==
    IF ~Truthy(Get(st.settings, "api_key"))
    THEN LET a == authenticate(st.settings["base_url"], "pyreadeck", username,
                               password, outcome)
             token == IF a.result.kind = "raise" THEN "" ELSE a.result.value
         IN  [settings |-> set_key(st.settings, "api_key", token),
              envfile  |-> set_key(st.envfile, "api_key", token),
              effects  |-> st.effects \o <<Effect("Prompt.ask", "Username: ", username),
                                           Effect("Prompt.ask", "Password: ", password),
                                           Effect("authenticate", "pyreadeck",
                                                  st.settings["base_url"]),
                                           Effect("set_key", "api_key", token)>>,
              requests |-> st.requests \o a.requests,
              raised   |-> IF a.result.kind = "raise" THEN a.result ELSE st.raised]
    ELSE st

\* lines 25-34: the credentials are prompted for, authenticate is called and
\* the token it returns is persisted; an error of authenticate leaves here
resolve_api_key(st, username, password, outcome) ==
    IF ~Truthy(Get(st.settings, "api_key"))
    THEN LET a == authenticate(st.settings["base_url"], "pyreadeck", username,
                               password, outcome)
             asked == st.effects \o <<Effect("Prompt.ask", "Username: ", username),
                                      Effect("Prompt.ask", "Password: ", password),
                                      Effect("authenticate", "pyreadeck",
                                             st.settings["base_url"])>>
         IN  IF a.result.kind = "raise"
             THEN [settings |-> st.settings,
                   envfile  |-> st.envfile,
                   effects  |-> asked,
                   requests |-> st.requests \o a.requests,
                   raised   |-> a.result]
             ELSE [settings |-> set_key(st.settings, "api_key", a.result.value),
                   envfile  |-> set_key(st.envfile, "api_key", a.result.value),
                   effects  |-> asked \o <<Effect("set_key", "api_key", a.result.value)>>,
                   requests |-> st.requests \o a.requests,
                   raised   |-> st.raised]
    ELSE st

\* Settings.load as a function of the file, of what is typed at the prompts
\* and of the outcome the authenticate request meets (inputs a run does not
\* ask for are not consumed)
Settings_load(envfile, url_input, username, password, outcome) ==
    LET st0 == [settings |-> dotenv_values(envfile), envfile |-> envfile,
                effects |-> <<>>, requests |-> <<>>, raised |-> [kind |-> "none"]]
        st1 == resolve_base_url(st0, url_input)
        st2 == resolve_api_key(st1, username, password, outcome)
    IN  [envfile  |-> st2.envfile,
         effects  |-> st2.effects,
         requests |-> st2.requests,
         result   |-> IF st2.raised.kind = "raise" THEN st2.raised
                      ELSE Return([api_key  |-> st2.settings["api_key"],
                                   base_url |-> st2.settings["base_url"]])]

InitSettings ==
    /\ env \in EnvFiles
    /\ load = NoLoad
    /\ input = NoInput
    /\ call = NoCall
    /\ InitUIIdle

\* one process start: load runs to its end (a Settings object or an error)
Load ==
    \E url_input \in UrlInputs, username \in UserInputs, password \in PasswordInputs,
       outcome \in Responses([token : Tokens]) \cup Failures :
        LET r == Settings_load(env, url_input, username, password, outcome)
        IN  /\ env' = r.envfile
            /\ load' = [before   |-> env,
                        outcome  |-> IF \E i \in DOMAIN r.effects :
                                            r.effects[i].op = "authenticate"
                                     THEN outcome ELSE [kind |-> "unused"],
                        effects  |-> r.effects,
                        requests |-> r.requests,
                        result   |-> r.result]
            /\ UNCHANGED <<clientVars, uiVars>>

NextSettings == Load

SpecSettings == InitSettings /\ [][NextSettings]_vars

---------------------------------------------------------------------------
(* tui.py: the handlers of Bookmarks (the list view) and Article.  _CLIENT  *)
(* is built once from the loaded settings; every handler runs to its end    *)
(* before the next event is taken.                                          *)

\* the exceptions the two fetch helpers catch
Caught == {"ConnectTimeout", "ConnectError"}

\* Bookmarks._get_bookmarks without the except clause
_get_bookmarks_uncaught(outcome) ==
    LET r == bookmarks(None, outcome)
    IN  IF r.result.kind = "return"
        THEN [requests |-> r.requests, value |-> PyList(r.result.value),
              raised |-> "none"]
        ELSE [requests |-> r.requests, value |-> Unset, raised |-> r.result.exc]

\* Bookmarks._get_bookmarks: the value _bookmarks is left with, or the
\* exception that is not caught
_get_bookmarks(outcome) ==
    LET r == bookmarks(None, outcome)
    IN  IF r.result.kind = "return"
        THEN [requests |-> r.requests, value |-> PyList(r.result.value),
              raised |-> "none"]
        ELSE IF r.result.exc \in Caught
        THEN [requests |-> r.requests, value |-> PyList(<<>>), raised |-> "none"]
        ELSE [requests |-> r.requests, value |-> Unset, raised |-> r.result.exc]

\* Bookmarks._get_article: the markdown, None on a caught error, or the
\* exception that is not caught
_get_article(selected, outcome) ==
    LET r == bookmark_export(selected.id, "md", outcome)
    IN  IF r.result.kind = "return"
        THEN [requests |-> r.requests, md |-> r.result.value, raised |-> "none"]
        ELSE IF r.result.exc \in Caught
        THEN [requests |-> r.requests, md |-> None, raised |-> "none"]
        ELSE [requests |-> r.requests, md |-> None, raised |-> r.result.exc]

\* App.action_focus_next over the focus chain of MainScreen
action_focus_next(focused) ==
    IF focused = "Bookmarks" THEN "Article" ELSE "Bookmarks"

InitUI ==
    /\ InitUIIdle
    /\ InitSettingsIdle
    /\ input = NoInput
    /\ call = NoCall

\* Bookmarks.on_mount
on_mount ==
    /\ ~mounted /\ escaped = "none" /\ last.n < MaxEvents
    /\ \E outcome \in Responses(BookmarkLists) \cup Failures :
        LET g == _get_bookmarks(outcome)
        IN  /\ mounted' = TRUE
            /\ requests' = requests \o g.requests
            /\ last' = [event |-> "mount", n |-> last.n + 1, outcome |-> outcome]
            /\ IF g.raised = "none"
               THEN /\ _bookmarks' = g.value
                    /\ items' = items \o [i \in DOMAIN g.value.list |->
                                              g.value.list[i].title]
                    /\ escaped' = "none"
               ELSE /\ escaped' = g.raised
                    /\ UNCHANGED <<_bookmarks, items>>
    /\ UNCHANGED <<document, loading, focus, clientVars, settingsVars>>

\* Bookmarks.on_list_view_selected for the item at position index (the list
\* view holds the focus when it posts Selected)
on_list_view_selected ==
    /\ mounted /\ escaped = "none" /\ last.n < MaxEvents
    /\ \E index \in DOMAIN items :
       \E outcome \in Responses(Contents) \cup Failures :
        LET selected == _bookmarks.list[index]
            a == _get_article(selected, outcome)
        IN  /\ requests' = requests \o a.requests
            /\ last' = [event |-> "select", n |-> last.n + 1, index |-> index,
                        outcome |-> outcome]
            /\ IF a.raised # "none"
               THEN /\ loading' = TRUE
                    /\ escaped' = a.raised
                    /\ focus' = "Bookmarks"
                    /\ UNCHANGED document
               ELSE /\ loading' = FALSE
                    /\ escaped' = "none"
                    /\ IF Truthy(a.md)
                       THEN /\ document' = a.md.str
                            /\ focus' = action_focus_next("Bookmarks")
                       ELSE /\ focus' = "Bookmarks"
                            /\ UNCHANGED document
    /\ UNCHANGED <<mounted, _bookmarks, items, clientVars, settingsVars>>

\* Article.action_close, bound to q while the focus is inside the article view
action_close ==
    /\ mounted /\ escaped = "none" /\ last.n < MaxEvents
    /\ focus = "Article"
    /\ document' = ""
    /\ focus' = "Bookmarks"
    /\ last' = [event |-> "close", n |-> last.n + 1]
    /\ UNCHANGED <<mounted, escaped, _bookmarks, items, loading, requests,
                   clientVars, settingsVars>>

NextUI ==
    \/ on_mount
    \/ on_list_view_selected
    \/ action_close

SpecUI == InitUI /\ [][NextUI]_vars

---------------------------------------------------------------------------
(* Properties of the PyReadeck operations (SpecClient) *)

\* a response whose status is outside 2xx
NonSuccess(outcome) ==
    outcome.kind = "response" /\ (outcome.status < 200 \/ outcome.status > 299)

\* the value a set filter field is expected to carry in the query: the value
\* itself, an enum member by its value, a list element by element
SentAs(v, p) ==
    CASE v.kind = "enum" -> p = PyStr(EnumValue(v))
      [] v.kind = "list" ->
            /\ p.kind = "list"
            /\ Len(p.list) = Len(v.list)
            /\ \A i \in DOMAIN v.list : p.list[i] = PyStr(EnumValue(v.list[i]))
      [] OTHER -> p = v

\* C1: the query parameters of the GET bookmarks request are exactly the
\* filter fields that are set: a field left None is no key of the parameters,
\* a field set to any value (False, 0, "" and [] included) is a key carrying
\* that value; without a filter no parameters are passed.
C1_FilterParams ==
    (input.op = "bookmarks" /\ Called) =>
        /\ Len(call.requests) = 1
        /\ call.requests[1].method = "GET"
        /\ call.requests[1].path = "bookmarks"
        /\ LET params == call.requests[1].params
           IN  IF input.filter = None
               THEN params = None
               ELSE /\ params.kind = "dict"
                    /\ DOMAIN params.dict \subseteq FilterFields
                    /\ \A f \in FilterFields :
                        LET v == input.filter.fields[f]
                        IN  IF v = None
                            THEN f \notin DOMAIN params.dict
                            ELSE /\ f \in DOMAIN params.dict
                                 /\ SentAs(v, params.dict[f])

\* the filter {search: "rust", is_archived: true} was sent as exactly the
\* parameters search and is_archived
C1_Witness ==
    /\ input.op = "bookmarks" /\ Called
    /\ input.filter # None
    /\ input.filter.fields["search"] = PyStr("rust")
    /\ input.filter.fields["is_archived"] = PyBool(TRUE)
    /\ DOMAIN call.requests[1].params.dict = {"search", "is_archived"}
    /\ call.requests[1].params.dict["search"] = PyStr("rust")
    /\ call.requests[1].params.dict["is_archived"] = PyBool(TRUE)

\* C2: bookmark_export returns text for "md" and bytes for "epub", and for
\* any other format the call returns no payload.
C2_ExportFormats ==
    (input.op = "bookmark_export" /\ Called) =>
        /\ (input.output_format = "md" /\ call.result.kind = "return")
                => call.result.value.kind = "str"
        /\ (input.output_format = "epub" /\ call.result.kind = "return")
                => call.result.value.kind = "bytes"
        /\ input.output_format \notin {"md", "epub"} => call.result.kind # "return"

\* C3: an operation whose request is answered with a status outside 2xx
\* raises an error carrying that status and returns nothing.
C3_NonSuccessRaises ==
    (Called /\ call.requests # <<>> /\ NonSuccess(input.outcome)) =>
        /\ call.result.kind = "raise"
        /\ call.result.exc = "HTTPStatusError"
        /\ call.result.status = input.outcome.status

\* authenticate was answered 401 and raised the error carrying 401
C3_Witness ==
    /\ input.op = "authenticate" /\ Called
    /\ input.outcome.kind = "response" /\ input.outcome.status = 401
    /\ call.result.kind = "raise"
    /\ call.result.exc = "HTTPStatusError"
    /\ call.result.status = 401

\* C7: the POST body of create_bookmark holds url and every optional field
\* that was supplied, with the supplied value, and has no key for an optional
\* field that was not supplied.
C7_CreateOmitsUnset ==
    (input.op = "create_bookmark" /\ Called) =>
        LET body == call.requests[1].json
        IN  /\ "url" \in DOMAIN body /\ body["url"] = PyStr(input.url)
            /\ IF input.labels = None THEN "labels" \notin DOMAIN body
               ELSE "labels" \in DOMAIN body /\ body["labels"] = input.labels
            /\ IF input.title = None THEN "title" \notin DOMAIN body
               ELSE "title" \in DOMAIN body /\ body["title"] = input.title

---------------------------------------------------------------------------
(* Properties of Settings.load (SpecSettings) *)

Loaded == load.result.kind # "none"

Did(op, arg) == \E i \in DOMAIN load.effects :
                    load.effects[i].op = op /\ load.effects[i].arg = arg

Absent(envfile, key) == key \notin DOMAIN envfile \/ envfile[key] = ""

\* C6: whenever load returns, both fields of the Settings are non-empty and the
\* env file holds the same two values; the base URL is prompted for exactly
\* when it was absent, the credentials are prompted for and authenticate is
\* called exactly when the api key was absent, and with both persisted load
\* prompts for nothing, calls nothing and writes nothing.
C6_LoadResolvesBoth ==
    (Loaded /\ load.result.kind = "return") =>
        /\ load.result.value.base_url # ""
        /\ load.result.value.api_key # ""
        /\ {"base_url", "api_key"} \subseteq DOMAIN env
        /\ env["base_url"] = load.result.value.base_url
        /\ env["api_key"] = load.result.value.api_key
        /\ Did("Prompt.ask", "Readeck URL: ") <=> Absent(load.before, "base_url")
        /\ Did("Prompt.ask", "Username: ") <=> Absent(load.before, "api_key")
        /\ Did("Prompt.ask", "Password: ") <=> Absent(load.before, "api_key")
        /\ Did("authenticate", "pyreadeck") <=> Absent(load.before, "api_key")
        /\ (~Absent(load.before, "base_url") /\ ~Absent(load.before, "api_key"))
                => (load.effects = <<>> /\ load.requests = <<>> /\ env = load.before)

\* the authenticate call of a run failed: a base URL no request can be sent
\* to, no answer, or a status outside 2xx
AuthFailed ==
    /\ Loaded
    /\ Did("authenticate", "pyreadeck")
    /\ \/ load.outcome.kind = "error"
       \/ NonSuccess(load.outcome)
       \/ \E i \in DOMAIN load.effects :
              /\ load.effects[i].op = "authenticate"
              /\ UrlSplit(load.effects[i].value).scheme = ""

\* C8: when the api key is absent and authenticate fails, the error leaves
\* load (no Settings), authenticate was the last thing load did and it was
\* called once with at most one request, no api_key was written, and a base
\* URL prompted for in this run stays in the env file.
C8_AuthFailurePropagates ==
    AuthFailed =>
        /\ Absent(load.before, "api_key")
        /\ load.result.kind = "raise"
        /\ load.effects[Len(load.effects)].op = "authenticate"
        /\ Cardinality({i \in DOMAIN load.effects :
                            load.effects[i].op = "authenticate"}) = 1
        /\ Len(load.requests) <= 1
        /\ ~Did("set_key", "api_key")
        /\ "api_key" \in DOMAIN env <=> "api_key" \in DOMAIN load.before
        /\ "api_key" \in DOMAIN env => env["api_key"] = load.before["api_key"]
        /\ \A i \in DOMAIN load.effects :
              (load.effects[i].op = "Prompt.ask" /\ load.effects[i].arg = "Readeck URL: ")
                  => ("base_url" \in DOMAIN env
                      /\ env["base_url"] = load.effects[i].value)

\* a run prompted for the base URL, persisted it, and was then refused by the
\* service with 401: the base URL is in the file, no api key is
C8_Witness ==
    /\ AuthFailed
    /\ load.outcome.kind = "response" /\ load.outcome.status = 401
    /\ load.result.kind = "raise" /\ load.result.exc = "HTTPStatusError"
    /\ Did("set_key", "base_url")
    /\ "base_url" \in DOMAIN env /\ env["base_url"] = "http://readeck"
    /\ "api_key" \notin DOMAIN env

---------------------------------------------------------------------------
(* Properties of the UI handlers (SpecUI) *)

Unreachable(outcome) == outcome.kind = "error" /\ outcome.exc \in Caught

Success(outcome) == outcome.kind = "response" /\ ~NonSuccess(outcome)

\* C4: after the mount handler met a connect error or a connect timeout the
\* list view holds an empty bookmark list and no item, and no error left the
\* handler; after it met a successful answer the list view holds one item
\* per bookmark returned, in the order returned.
C4_MountFillsList ==
    last.event = "mount" =>
        /\ Unreachable(last.outcome) =>
              (_bookmarks = PyList(<<>>) /\ items = <<>> /\ escaped = "none")
        /\ Success(last.outcome) =>
              /\ escaped = "none"
              /\ _bookmarks.kind = "list"
              /\ Len(_bookmarks.list) = Len(last.outcome.body)
              /\ Len(items) = Len(last.outcome.body)
              /\ \A i \in DOMAIN items :
                    /\ items[i] = last.outcome.body[i].title
                    /\ _bookmarks.list[i].id = last.outcome.body[i].id

\* the mount handler met a connect error and left an empty list
C4_Witness ==
    /\ last.event = "mount"
    /\ last.outcome.kind = "error" /\ last.outcome.exc = "ConnectError"
    /\ mounted
    /\ _bookmarks = PyList(<<>>) /\ items = <<>> /\ escaped = "none"

\* C5: after a selection was handled, the article view shows the export of
\* the bookmark just selected if the export call succeeded, and shows nothing
\* if the call failed on connectivity.
C5_ArticleShowsSelection ==
    last.event = "select" =>
        /\ Success(last.outcome) => document = Decode(last.outcome.body)
        /\ Unreachable(last.outcome) => document = ""

\* one handled event: the requests it added
C9_Step ==
    (last'.n = last.n + 1) =>
        /\ last'.event = "mount" =>
              requests' = requests \o <<Request("GET", "bookmarks", None, None)>>
        /\ last'.event = "select" =>
              requests' = requests \o
                  <<Request("GET",
                            "bookmarks/" \o _bookmarks.list[last'.index].id \o "/article.md",
                            None, None)>>
        /\ last'.event = "close" => requests' = requests
        /\ mounted => \A i \in DOMAIN requests' :
                          i > Len(requests) => requests'[i].path # "bookmarks"

\* C9: whatever the outcome, the mount handler issues exactly one list
\* request, each selection exactly one markdown-export request for the
\* selected bookmark, a close none; nothing is sent twice and the list is not
\* fetched again after the mount.
C9_OneRequestPerEvent == [][C9_Step]_vars

\* mount, a selection, a close and a second selection were handled and three
\* requests were issued; the second selection met a transport error
C9_Witness ==
    /\ last.event = "select" /\ last.n = 4
    /\ Len(requests) = 3
    /\ requests[1].path = "bookmarks"
    /\ requests[3].path = "bookmarks/b2/article.md"
    /\ last.outcome.kind = "error"

\* C10: when the handling of a selection has ended, whatever the export call
\* met, the article view is not loading.
C10_LoadingCleared ==
    last.event = "select" => loading = FALSE

====
